---- MODULE Spec2Model ----
(***************************************************************************)
(* Expense Tracker API (src/main.py): the users and transactions tables,   *)
(* the bearer-token gate get_current_user, and one action per request      *)
(* handler.  Every handler runs in its own database session and commits    *)
(* once, so a handler is one atomic step; signup is split at the point     *)
(* between its existence query and its commit, where another request can   *)
(* run.                                                                    *)
(***************************************************************************)
EXTENDS Integers, Sequences, FiniteSets, TLC

VARIABLES
    users,       \* rows of table users: records [id, email, password_hash]
    nextUserId,  \* next value of the users.id sequence
    txns,        \* table transactions: id -> [amount, category, date]
    nextTxnId,   \* next value of the transactions.id sequence
    now,         \* wall clock, seconds (datetime.now)
    issued,      \* what login has handed out: [token, at, email], at the time of issue
    pc,          \* per signup request: Idle, or the request past its existence query
    resp         \* the last response sent: [op, status, body]

vars == <<users, nextUserId, txns, nextTxnId, now, issued, pc, resp>>

---------------------------------------------------------------------------
(* Bounds of the model *)

MaxTxnId == 2      \* transactions.id sequence is followed up to this value
MaxBulk == 2       \* longest list given to /transactions/bulk
MaxUserId == 3     \* users.id sequence is followed up to this value
NumProcs == 2      \* signup requests that can be in flight at once
MaxIssue == 1      \* logins happen at clock values 0..MaxIssue
MaxSharedId == 1   \* transactions.id sequence with two users calling is followed up to this

(* Program constants *)

JWT_EXPIRES_MINUTES == 60
LEEWAY == 120
MIN_PASSWORD_LEN == 6

(* An Optional[...] value: None is the empty set, a supplied value v is {v} *)
None == {}
Some(v) == {v}
Val(o) == CHOOSE v \in o : TRUE
Optional(S) == {None} \cup {Some(v) : v \in S}

---------------------------------------------------------------------------
(* Strings that are compared (dates) are sequences of character codes.     *)

RECURSIVE StrLE(_, _)
StrLE(a, b) ==
    IF a = <<>> THEN TRUE
    ELSE IF b = <<>> THEN FALSE
    ELSE IF Head(a) < Head(b) THEN TRUE
    ELSE IF Head(a) > Head(b) THEN FALSE
    ELSE StrLE(Tail(a), Tail(b))

StrGE(a, b) == StrLE(b, a)

(* Python truthiness of an Optional[str]: None and the empty string are false *)
TruthyStr(o) == o # None /\ Val(o) # ""
TruthyDate(o) == o # None /\ Val(o) # <<>>

JWT_EXPIRES_SECONDS == JWT_EXPIRES_MINUTES * 60

---------------------------------------------------------------------------
(* Request inputs *)

Amounts == {-1, 0, 1, 2}
Categories == {"", "food"}
Dates == {<<1>>, <<1, 0>>}               \* "1" < "10" as strings
FilterDates == Dates \cup {<<>>}          \* "" < "1" < "10"
FilterCategories == {"", "food"}
BulkItems ==                             \* items of a bulk request
    { [amount |-> 1, category |-> "food", date |-> <<1>>],
      [amount |-> 2, category |-> "", date |-> <<1, 0>>],
      [amount |-> 0, category |-> "food", date |-> <<1>>] }
TxnIds == 1..(MaxTxnId + 1)              \* path parameter txn_id

Emails == {"a@x.io", "b@x.io"}
Passwords == {"secret", "short"}
PasswordLen(p) == IF p = "short" THEN 5 ELSE 6
Salts == {1, 2}

(* Bearer credentials a request can carry *)
NoToken == [kind |-> "none", sub |-> "", exp |-> 0, sig |-> ""]
Malformed == [kind |-> "malformed", sub |-> "", exp |-> 0, sig |-> ""]
Jwt(sub, exp, sig) == [kind |-> "jwt", sub |-> sub, exp |-> exp, sig |-> sig]

---------------------------------------------------------------------------
(* Password hasher (bcrypt through passlib): the hash embeds its salt *)

hash_password(password, salt) == [salt |-> salt, pw |-> password]

verify_password(plain_password, password_hash) == password_hash.pw = plain_password

---------------------------------------------------------------------------
(* Token issuer and the authentication gate *)

(* str(user_id) and int(user_id_str); int raises ValueError (None here) on a
   string that is not a decimal number *)
str(n) == ToString(n)
int(s) == IF \E n \in 0..(MaxUserId + 1) : ToString(n) = s
          THEN Some(CHOOSE n \in 0..(MaxUserId + 1) : ToString(n) = s)
          ELSE None

create_access_token_FirstUser(user_id) == Jwt("1", now + JWT_EXPIRES_SECONDS, "good")

create_access_token(user_id) == Jwt(str(user_id), now + JWT_EXPIRES_SECONDS, "good")

jwt_decode_NoLeeway(token) ==
    IF token.kind # "jwt" THEN None
    ELSE IF token.sig # "good" THEN None
    ELSE IF token.exp <= now THEN None
    ELSE Some([sub |-> token.sub, exp |-> token.exp])

jwt_decode_NoExpiry(token) ==
    IF token.kind # "jwt" THEN None
    ELSE IF token.sig # "good" THEN None
    ELSE Some([sub |-> token.sub, exp |-> token.exp])

(* jwt.decode(token, JWT_SECRET, algorithms=[JWT_ALG], leeway=120): the payload,
   or None when decoding raises (not a JWT, bad signature, exp passed by the
   leeway or more) *)
jwt_decode(token) ==
    IF token.kind # "jwt" THEN None
    ELSE IF token.sig # "good" THEN None
    ELSE IF token.exp <= now - LEEWAY THEN None
    ELSE Some([sub |-> token.sub, exp |-> token.exp])

(* db.get(UserORM, id) *)
get_user(id) == {u \in users : u.id = id}

(* HTTPBearer() answers a request without bearer credentials itself; FastAPI
   before 0.122 sends 403 "Not authenticated", later releases send 401 *)
NoCredentials ==
    {[status |-> st, detail |-> "Not authenticated", user |-> None] : st \in {401, 403}}

(* The outcomes of the dependency get_current_user for a request carrying
   `token`: status 200 with the user, or the error response that ends the request *)
get_current_user(token) ==
    IF token.kind = "none" THEN NoCredentials
    ELSE LET payload == jwt_decode(token) IN
      IF payload = None
      THEN {[status |-> 401, detail |-> "Invalid or expired token", user |-> None]}
      ELSE IF Val(payload).sub = ""
      THEN {[status |-> 401, detail |-> "Invalid token", user |-> None]}
      ELSE IF int(Val(payload).sub) = None
      THEN {[status |-> 500, detail |-> "ValueError", user |-> None]}
      ELSE LET user == get_user(Val(int(Val(payload).sub))) IN
        IF user = None
        THEN {[status |-> 401, detail |-> "User not found", user |-> None]}
        ELSE {[status |-> 200, detail |-> "", user |-> user]}

(* Credentials tried against the gate: what login has issued, no credentials,
   a string that is no JWT, a JWT signed with another key, and JWTs signed with
   JWT_SECRET whose subject is empty, not a number, or the id of no user *)
FarExp == 3 * JWT_EXPIRES_SECONDS
ForgedTokens ==
    { NoToken, Malformed,
      Jwt("1", FarExp, "bad"),
      Jwt("", FarExp, "good"),
      Jwt("abc", FarExp, "good"),
      Jwt(str(MaxUserId + 1), FarExp, "good") }
IssuedTokens == {i.token : i \in issued}
TokenInputs == IssuedTokens \cup ForgedTokens

(* The response of a request the gate or the validation layer ended *)
Error(op, status, detail) == [op |-> op, status |-> status, body |-> detail]
Ok(op, body) == [op |-> op, status |-> 200, body |-> body]

Reject(op, g) ==
    /\ resp' = Error(op, g.status, g.detail)
    /\ UNCHANGED <<users, nextUserId, txns, nextTxnId, now, issued, pc>>

---------------------------------------------------------------------------
(* Transaction store and the request models *)

(* TransactionIn: amount: float = Field(gt=0) *)
TransactionIn_valid(amount) == amount > 0

TransactionUpdate_valid_NoBound(amount) == TRUE

(* TransactionUpdate: amount: Optional[float] = Field(default=None, gt=0) *)
TransactionUpdate_valid(amount) == amount = None \/ Val(amount) > 0

(* What a handler leaves behind: its response and the transactions table and
   id sequence after its commit (unchanged when it raised before committing) *)
Outcome(r, t, n) == [resp |-> r, txns |-> t, nextTxnId |-> n]

Invalid(db, op) == Outcome(Error(op, 422, "validation error"), db.txns, db.nextTxnId)

NotFound(db, op) == Outcome(Error(op, 404, "Transaction not found"), db.txns, db.nextTxnId)

TransactionORM_DateCut(amount, category, date) ==
    [amount |-> amount, category |-> category, date |-> SubSeq(date, 1, 1)]

(* TransactionORM(amount=..., category=..., date=...) *)
TransactionORM(amount, category, date) ==
    [amount |-> amount, category |-> category, date |-> date]

(* TransactionOut(id=row.id, amount=row.amount, category=row.category, date=row.date) *)
TransactionOut(t, id) ==
    [id |-> id, amount |-> t[id].amount, category |-> t[id].category, date |-> t[id].date]

(* db.add(row); db.commit(): the table with `row` stored under `id` *)
db_add(t, id, row) == [i \in DOMAIN t \cup {id} |-> IF i = id THEN row ELSE t[i]]

(* db.delete(row); db.commit() *)
db_delete(t, id) == [i \in DOMAIN t \ {id} |-> t[i]]

(* db.get(TransactionORM, txn_id): None when there is no such row *)
db_get(t, id) == IF id \in DOMAIN t THEN Some(t[id]) ELSE None

add_transaction_Rowid(db, current_user, amount, category, date) ==
    IF ~TransactionIn_valid(amount) THEN Invalid(db, "add")
    ELSE LET id == IF DOMAIN db.txns = {} THEN 1
                   ELSE 1 + CHOOSE i \in DOMAIN db.txns : \A j \in DOMAIN db.txns : j <= i
             t == db_add(db.txns, id, TransactionORM(amount, category, date))
         IN Outcome(Ok("add", TransactionOut(t, id)), t, db.nextTxnId)

(* POST /transactions *)
add_transaction(db, current_user, amount, category, date) ==
    IF ~TransactionIn_valid(amount) THEN Invalid(db, "add")
    ELSE LET t == db_add(db.txns, db.nextTxnId, TransactionORM(amount, category, date))
         IN Outcome(Ok("add", TransactionOut(t, db.nextTxnId)), t, db.nextTxnId + 1)

(* GET /transactions/{txn_id} *)
get_transaction(db, current_user, txn_id) ==
    IF db_get(db.txns, txn_id) = None THEN NotFound(db, "get")
    ELSE Outcome(Ok("get", TransactionOut(db.txns, txn_id)), db.txns, db.nextTxnId)

replace_row_KeepDate(row, amount, category, date) ==
    [amount |-> amount, category |-> category, date |-> row.date]

(* row.amount, row.category, row.date = data.amount, data.category, data.date *)
replace_row(row, amount, category, date) ==
    [amount |-> amount, category |-> category, date |-> date]

(* PUT /transactions/{txn_id} *)
replace_transaction(db, current_user, txn_id, amount, category, date) ==
    IF ~TransactionIn_valid(amount) THEN Invalid(db, "replace")
    ELSE IF db_get(db.txns, txn_id) = None THEN NotFound(db, "replace")
    ELSE LET t == [db.txns EXCEPT ![txn_id] = replace_row(@, amount, category, date)]
         IN Outcome(Ok("replace", TransactionOut(t, txn_id)), t, db.nextTxnId)

patch_row_Truthy(row, amount, category, date) ==
    [amount |-> IF amount # None THEN Val(amount) ELSE row.amount,
     category |-> IF TruthyStr(category) THEN Val(category) ELSE row.category,
     date |-> IF TruthyDate(date) THEN Val(date) ELSE row.date]

(* the three "if data.x is not None: row.x = data.x" assignments *)
patch_row(row, amount, category, date) ==
    [amount |-> IF amount # None THEN Val(amount) ELSE row.amount,
     category |-> IF category # None THEN Val(category) ELSE row.category,
     date |-> IF date # None THEN Val(date) ELSE row.date]

(* PATCH /transactions/{txn_id} *)
update_transaction(db, current_user, txn_id, amount, category, date) ==
    IF ~TransactionUpdate_valid(amount) THEN Invalid(db, "patch")
    ELSE IF db_get(db.txns, txn_id) = None THEN NotFound(db, "patch")
    ELSE LET t == [db.txns EXCEPT ![txn_id] = patch_row(@, amount, category, date)]
         IN Outcome(Ok("patch", TransactionOut(t, txn_id)), t, db.nextTxnId)

delete_transaction_NoCheck(db, current_user, txn_id) ==
    Outcome(Ok("delete", [ok |-> TRUE, deleted_id |-> txn_id]),
            db_delete(db.txns, txn_id), db.nextTxnId)

(* DELETE /transactions/{txn_id} *)
delete_transaction(db, current_user, txn_id) ==
    IF db_get(db.txns, txn_id) = None THEN NotFound(db, "delete")
    ELSE Outcome(Ok("delete", [ok |-> TRUE, deleted_id |-> txn_id]),
                 db_delete(db.txns, txn_id), db.nextTxnId)

query_filter_Exclusive(t, category, from_date, to_date) ==
    {i \in DOMAIN t :
        /\ TruthyStr(category) => t[i].category = Val(category)
        /\ TruthyDate(from_date) => StrGE(t[i].date, Val(from_date))
        /\ TruthyDate(to_date) => (StrLE(t[i].date, Val(to_date)) /\ t[i].date # Val(to_date))}

(* query.filter(...) three times: the rows that pass every filter whose
   parameter is truthy *)
query_filter(t, category, from_date, to_date) ==
    {i \in DOMAIN t :
        /\ TruthyStr(category) => t[i].category = Val(category)
        /\ TruthyDate(from_date) => StrGE(t[i].date, Val(from_date))
        /\ TruthyDate(to_date) => StrLE(t[i].date, Val(to_date))}

RECURSIVE order_by_id_asc(_)
order_by_id_asc(ids) ==
    IF ids = {} THEN <<>>
    ELSE LET m == CHOOSE i \in ids : \A j \in ids : i <= j
         IN <<m>> \o order_by_id_asc(ids \ {m})

(* query.order_by(TransactionORM.id.desc()).all() *)
RECURSIVE order_by_id_desc(_)
order_by_id_desc(ids) ==
    IF ids = {} THEN <<>>
    ELSE LET m == CHOOSE i \in ids : \A j \in ids : j <= i
         IN <<m>> \o order_by_id_desc(ids \ {m})

(* db.query(TransactionORM).all(): the rows as the summary loop meets them *)
RECURSIVE all_rows(_)
all_rows(ids) ==
    IF ids = {} THEN <<>>
    ELSE LET m == CHOOSE i \in ids : \A j \in ids : i <= j
         IN <<m>> \o all_rows(ids \ {m})

list_transactions_Scoped(db, current_user, category, from_date, to_date) ==
    LET rows == IF current_user.id = 1
                THEN order_by_id_desc(query_filter(db.txns, category, from_date, to_date))
                ELSE <<>>
    IN Outcome(Ok("list", [k \in 1..Len(rows) |-> TransactionOut(db.txns, rows[k])]),
               db.txns, db.nextTxnId)

(* GET /transactions *)
list_transactions(db, current_user, category, from_date, to_date) ==
    LET rows == order_by_id_desc(query_filter(db.txns, category, from_date, to_date))
    IN Outcome(Ok("list", [k \in 1..Len(rows) |-> TransactionOut(db.txns, rows[k])]),
               db.txns, db.nextTxnId)

accumulate_Overwrite(totals, r) ==
    [c \in DOMAIN totals \cup {r.category} |-> IF c = r.category THEN r.amount ELSE totals[c]]

(* totals[r.category] = totals.get(r.category, 0.0) + r.amount *)
accumulate(totals, r) ==
    [c \in DOMAIN totals \cup {r.category} |->
        IF c = r.category
        THEN (IF c \in DOMAIN totals THEN totals[c] ELSE 0) + r.amount
        ELSE totals[c]]

(* the summary loop from the k-th row on *)
RECURSIVE summary_loop(_, _, _, _)
summary_loop(t, rows, k, totals) ==
    IF k > Len(rows) THEN totals
    ELSE summary_loop(t, rows, k + 1, accumulate(totals, t[rows[k]]))

EmptyDict == [c \in {} |-> 0]

(* GET /summary *)
summary(db, current_user) ==
    Outcome(Ok("summary", summary_loop(db.txns, all_rows(DOMAIN db.txns), 1, EmptyDict)),
            db.txns, db.nextTxnId)

RECURSIVE db_add_all_SameId(_, _, _)
db_add_all_SameId(t, first, rows) ==
    IF rows = <<>> THEN t
    ELSE db_add_all_SameId(db_add(t, first, Head(rows)), first, Tail(rows))

(* db.add_all(rows); db.commit(): the rows get the next ids in list order *)
RECURSIVE db_add_all(_, _, _)
db_add_all(t, first, rows) ==
    IF rows = <<>> THEN t
    ELSE db_add_all(db_add(t, first, Head(rows)), first + 1, Tail(rows))

(* POST /transactions/bulk *)
add_transactions_bulk(db, current_user, items) ==
    IF \E k \in 1..Len(items) : ~TransactionIn_valid(items[k].amount) THEN Invalid(db, "bulk")
    ELSE LET rows == [k \in 1..Len(items) |->
                       TransactionORM(items[k].amount, items[k].category, items[k].date)]
         IN Outcome(Ok("bulk", [ok |-> TRUE, added |-> Len(rows)]),
                    db_add_all(db.txns, db.nextTxnId, rows), db.nextTxnId + Len(rows))

(* UserOut(id=user.id, email=user.email) *)
UserOut(user) == [id |-> user.id, email |-> user.email]

(* GET /me *)
me(db, current_user) == Outcome(Ok("me", UserOut(current_user)), db.txns, db.nextTxnId)

---------------------------------------------------------------------------
(* Credential store, signup and login *)

Idle == [st |-> "idle"]

(* SignupIn: password: str = Field(min_length=6) *)
SignupIn_valid(password) == PasswordLen(password) >= MIN_PASSWORD_LEN

(* db.query(UserORM).filter(UserORM.email == email).first() *)
find_by_email(email) == {u \in users : u.email = email}

insert_user_NoUnique(email, password_hash) ==
    [status |-> 200,
     users |-> users \cup {[id |-> nextUserId, email |-> email,
                            password_hash |-> password_hash]}]

(* The INSERT that signup's db.commit() flushes.  users.email is declared
   unique=True, so the database refuses a second row with the same email
   (IntegrityError, which signup does not catch: a 500 response).  The id
   sequence has advanced either way. *)
insert_user(email, password_hash) ==
    IF find_by_email(email) # {}
    THEN [status |-> 500, users |-> users]
    ELSE [status |-> 200,
          users |-> users \cup {[id |-> nextUserId, email |-> email,
                                 password_hash |-> password_hash]}]

(* POST /auth/signup, up to and including the existence query and the
   construction of the UserORM object *)
signup_check(p) ==
    /\ pc[p].st # "pending"
    /\ \E email \in Emails, password \in Passwords :
         IF ~SignupIn_valid(password)
         THEN /\ resp' = Error("signup", 422, "validation error")
              /\ pc' = [pc EXCEPT ![p] = [st |-> "done", email |-> email, status |-> 422]]
         ELSE IF find_by_email(email) # {}
         THEN /\ resp' = Error("signup", 400, "Email already registered")
              /\ pc' = [pc EXCEPT ![p] = [st |-> "done", email |-> email, status |-> 400]]
         ELSE \E salt \in Salts :
              /\ pc' = [pc EXCEPT ![p] = [st |-> "pending", email |-> email,
                             password_hash |-> hash_password(password, salt)]]
              /\ resp' = resp
    /\ UNCHANGED <<users, nextUserId, txns, nextTxnId, now, issued>>

signup_commit_Replace(p) ==
    /\ pc[p].st = "pending"
    /\ nextUserId <= MaxUserId
    /\ LET r == insert_user(pc[p].email, pc[p].password_hash) IN
         /\ users' = r.users \ users
         /\ nextUserId' = nextUserId + 1
         /\ pc' = [pc EXCEPT ![p] = [st |-> "done", email |-> pc[p].email,
                                     status |-> r.status]]
         /\ resp' = IF r.status = 200
                    THEN Ok("signup", [id |-> nextUserId, email |-> pc[p].email])
                    ELSE Error("signup", 500, "IntegrityError")
    /\ UNCHANGED <<txns, nextTxnId, now, issued>>

(* POST /auth/signup from db.add(user); db.commit() to the response *)
signup_commit(p) ==
    /\ pc[p].st = "pending"
    /\ nextUserId <= MaxUserId
    /\ LET r == insert_user(pc[p].email, pc[p].password_hash) IN
         /\ users' = r.users
         /\ nextUserId' = nextUserId + 1
         /\ pc' = [pc EXCEPT ![p] = [st |-> "done", email |-> pc[p].email,
                                     status |-> r.status]]
         /\ resp' = IF r.status = 200
                    THEN Ok("signup", [id |-> nextUserId, email |-> pc[p].email])
                    ELSE Error("signup", 500, "IntegrityError")
    /\ UNCHANGED <<txns, nextTxnId, now, issued>>

login_request_NoPasswordCheck(email, password) ==
    LET user == find_by_email(email) IN
    /\ IF user = {}
       THEN /\ resp' = Error("login", 401, "Invalid credentials")
            /\ issued' = issued
       ELSE LET token == create_access_token(Val(user).id) IN
            /\ issued' = issued \cup {[token |-> token, at |-> now, email |-> email]}
            /\ resp' = Ok("login", [access_token |-> token, token_type |-> "bearer",
                                    expires_in |-> JWT_EXPIRES_MINUTES * 60])
    /\ UNCHANGED <<users, nextUserId, txns, nextTxnId, now, pc>>

(* POST /auth/login with body {email, password} *)
login_request(email, password) ==
    LET user == find_by_email(email) IN
    /\ IF user = {} \/ ~verify_password(password, Val(user).password_hash)
       THEN /\ resp' = Error("login", 401, "Invalid credentials")
            /\ issued' = issued
       ELSE LET token == create_access_token(Val(user).id) IN
            /\ issued' = issued \cup {[token |-> token, at |-> now, email |-> email]}
            /\ resp' = Ok("login", [access_token |-> token, token_type |-> "bearer",
                                    expires_in |-> JWT_EXPIRES_MINUTES * 60])
    /\ UNCHANGED <<users, nextUserId, txns, nextTxnId, now, pc>>

(* Logins are followed at the clock values 0..MaxIssue *)
login ==
    /\ now <= MaxIssue
    /\ \E email \in Emails, password \in Passwords : login_request(email, password)

(* The clock values looked at: the login times, and for a token issued at
   each of them the seconds around its exp and around exp + leeway *)
Times ==
    (0..MaxIssue)
    \cup {t + JWT_EXPIRES_SECONDS + d : t \in 0..MaxIssue, d \in {-1, 0, 1}}
    \cup {t + JWT_EXPIRES_SECONDS + LEEWAY + d : t \in 0..MaxIssue, d \in {-1, 0, 1}}

Tick ==
    /\ \E t \in Times : t > now /\ now' = t
    /\ UNCHANGED <<users, nextUserId, txns, nextTxnId, issued, pc, resp>>

---------------------------------------------------------------------------
(* Requests *)

(* The request ends with outcome o: the handler's commit and response take
   effect; the id sequence is followed up to MaxTxnId *)
Respond(o) ==
    /\ o.nextTxnId <= MaxTxnId + 1
    /\ txns' = o.txns
    /\ nextTxnId' = o.nextTxnId
    /\ resp' = o.resp
    /\ UNCHANGED <<users, nextUserId, now, issued, pc>>

(* The database as the request's session sees it *)
Db == [txns |-> txns, nextTxnId |-> nextTxnId]

BulkLists == UNION {[1..n -> BulkItems] : n \in 0..MaxBulk}

(* A protected operation is entered through Depends(get_current_user): the
   gate runs first, and either ends the request or hands the user it resolved
   to the handler as current_user.  T is the set of credentials tried. *)
AddTransaction(T) ==
    \E token \in T : \E g \in get_current_user(token) :
      IF g.status # 200 THEN Reject("add", g)
      ELSE \E amount \in Amounts, category \in Categories, date \in Dates :
        Respond(add_transaction(Db, Val(g.user), amount, category, date))

AddTransactionsBulk(T) ==
    \E token \in T : \E g \in get_current_user(token) :
      IF g.status # 200 THEN Reject("bulk", g)
      ELSE \E items \in BulkLists : Respond(add_transactions_bulk(Db, Val(g.user), items))

ListTransactions(T) ==
    \E token \in T : \E g \in get_current_user(token) :
      IF g.status # 200 THEN Reject("list", g)
      ELSE \E category \in Optional(FilterCategories) :
        \E from_date \in Optional(FilterDates), to_date \in Optional(FilterDates) :
          Respond(list_transactions(Db, Val(g.user), category, from_date, to_date))

GetTransaction(T) ==
    \E token \in T : \E g \in get_current_user(token) :
      IF g.status # 200 THEN Reject("get", g)
      ELSE \E txn_id \in TxnIds : Respond(get_transaction(Db, Val(g.user), txn_id))

ReplaceTransaction(T) ==
    \E token \in T : \E g \in get_current_user(token) :
      IF g.status # 200 THEN Reject("replace", g)
      ELSE \E txn_id \in TxnIds, amount \in Amounts :
        \E category \in Categories, date \in Dates :
          Respond(replace_transaction(Db, Val(g.user), txn_id, amount, category, date))

UpdateTransaction(T) ==
    \E token \in T : \E g \in get_current_user(token) :
      IF g.status # 200 THEN Reject("patch", g)
      ELSE \E txn_id \in TxnIds, amount \in Optional(Amounts) :
        \E category \in Optional(Categories), date \in Optional(Dates) :
          Respond(update_transaction(Db, Val(g.user), txn_id, amount, category, date))

DeleteTransaction(T) ==
    \E token \in T : \E g \in get_current_user(token) :
      IF g.status # 200 THEN Reject("delete", g)
      ELSE \E txn_id \in TxnIds : Respond(delete_transaction(Db, Val(g.user), txn_id))

Summary(T) ==
    \E token \in T : \E g \in get_current_user(token) :
      IF g.status # 200 THEN Reject("summary", g) ELSE Respond(summary(Db, Val(g.user)))

Me(T) ==
    \E token \in T : \E g \in get_current_user(token) :
      IF g.status # 200 THEN Reject("me", g) ELSE Respond(me(Db, Val(g.user)))

---------------------------------------------------------------------------
(* Specifications *)

NoResponse == [op |-> "none", status |-> 0, body |-> ""]

(* The service just started on empty tables *)
Init ==
    /\ users = {}
    /\ nextUserId = 1
    /\ txns = <<>>
    /\ nextTxnId = 1
    /\ now = 0
    /\ issued = {}
    /\ pc = [p \in 1..NumProcs |-> Idle]
    /\ resp = NoResponse

(* Accounts and tokens, requests one at a time: signup, login, /me, and time *)
Next ==
    \/ signup_check(1)
    \/ signup_commit(1)
    \/ login
    \/ Me(TokenInputs)
    \/ Tick

Spec == Init /\ [][Next]_vars

(* Signup requests whose steps interleave *)
NextSignup ==
    \/ \E p \in 1..NumProcs : signup_check(p)
    \/ \E p \in 1..NumProcs : signup_commit(p)

SpecSignup == Init /\ [][NextSignup]_vars

(* One account exists and its holder has just logged in *)
InitTxn ==
    /\ users = {[id |-> 1, email |-> "a@x.io", password_hash |-> hash_password("secret", 1)]}
    /\ nextUserId = 2
    /\ txns = <<>>
    /\ nextTxnId = 1
    /\ now = 0
    /\ issued = {[token |-> Jwt("1", JWT_EXPIRES_SECONDS, "good"), at |-> 0,
                  email |-> "a@x.io"]}
    /\ pc = [p \in 1..NumProcs |-> Idle]
    /\ resp = NoResponse

(* One account exists; its holder logged in at time 0 and again just now,
   after the first token ran out *)
InitGate ==
    /\ users = {[id |-> 1, email |-> "a@x.io", password_hash |-> hash_password("secret", 1)]}
    /\ nextUserId = 2
    /\ txns = <<>>
    /\ nextTxnId = 1
    /\ now = JWT_EXPIRES_SECONDS + LEEWAY + 1
    /\ issued = {[token |-> Jwt("1", JWT_EXPIRES_SECONDS, "good"), at |-> 0,
                  email |-> "a@x.io"],
                 [token |-> Jwt("1", now + JWT_EXPIRES_SECONDS, "good"), at |-> now,
                  email |-> "a@x.io"]}
    /\ pc = [p \in 1..NumProcs |-> Idle]
    /\ resp = NoResponse

(* The transaction API called with tokens that login has issued *)
NextTxn ==
    \/ AddTransaction(IssuedTokens)
    \/ AddTransactionsBulk(IssuedTokens)
    \/ ListTransactions(IssuedTokens)
    \/ GetTransaction(IssuedTokens)
    \/ ReplaceTransaction(IssuedTokens)
    \/ UpdateTransaction(IssuedTokens)
    \/ DeleteTransaction(IssuedTokens)
    \/ Summary(IssuedTokens)

SpecTxn == InitTxn /\ [][NextTxn]_vars

(* The operations that write the transactions table, and get-by-id that reads
   a row back, called with tokens that login has issued *)
NextStore ==
    \/ AddTransaction(IssuedTokens)
    \/ AddTransactionsBulk(IssuedTokens)
    \/ GetTransaction(IssuedTokens)
    \/ ReplaceTransaction(IssuedTokens)
    \/ UpdateTransaction(IssuedTokens)
    \/ DeleteTransaction(IssuedTokens)

SpecStore == InitTxn /\ [][NextStore]_vars

(* Every protected operation called with any credentials *)
NextGate ==
    \/ AddTransaction(TokenInputs)
    \/ AddTransactionsBulk(TokenInputs)
    \/ ListTransactions(TokenInputs)
    \/ GetTransaction(TokenInputs)
    \/ ReplaceTransaction(TokenInputs)
    \/ UpdateTransaction(TokenInputs)
    \/ DeleteTransaction(TokenInputs)
    \/ Summary(TokenInputs)
    \/ Me(TokenInputs)

SpecGate == InitGate /\ [][NextGate]_vars

(* Two accounts exist and both holders have just logged in *)
InitShared ==
    /\ users = {[id |-> 1, email |-> "a@x.io", password_hash |-> hash_password("secret", 1)],
                [id |-> 2, email |-> "b@x.io", password_hash |-> hash_password("secret", 2)]}
    /\ nextUserId = 3
    /\ txns = <<>>
    /\ nextTxnId = 1
    /\ now = 0
    /\ issued = {[token |-> Jwt("1", JWT_EXPIRES_SECONDS, "good"), at |-> 0,
                  email |-> "a@x.io"],
                 [token |-> Jwt("2", JWT_EXPIRES_SECONDS, "good"), at |-> 0,
                  email |-> "b@x.io"]}
    /\ pc = [p \in 1..NumProcs |-> Idle]
    /\ resp = NoResponse

(* The id sequence is followed up to MaxSharedId when two users call *)
SharedCap == nextTxnId' <= MaxSharedId + 1

(* The transaction API called by either of the two users *)
NextShared ==
    \/ AddTransaction(IssuedTokens) /\ SharedCap
    \/ AddTransactionsBulk(IssuedTokens) /\ SharedCap
    \/ ListTransactions(IssuedTokens)
    \/ GetTransaction(IssuedTokens)
    \/ ReplaceTransaction(IssuedTokens)
    \/ UpdateTransaction(IssuedTokens)
    \/ DeleteTransaction(IssuedTokens)
    \/ Summary(IssuedTokens)

SpecShared == InitShared /\ [][NextShared]_vars

---------------------------------------------------------------------------
(* Properties *)

AfterDb(o) == [txns |-> o.txns, nextTxnId |-> o.nextTxnId]
ValidRows == {r \in BulkItems : r.amount > 0}

(* The databases one request after db, for every request that is not a
   replace, patch or delete of row id *)
NoWriteTo(db, u, id) ==
    LET others == DOMAIN db.txns \ {id} IN
    {db}
    \cup {AfterDb(get_transaction(db, u, j)) : j \in TxnIds}
    \cup {AfterDb(list_transactions(db, u, None, None, None)), AfterDb(summary(db, u))}
    \cup {AfterDb(add_transaction(db, u, r.amount, r.category, r.date)) : r \in BulkItems}
    \cup {AfterDb(delete_transaction(db, u, j)) : j \in others}
    \cup {AfterDb(replace_transaction(db, u, j, r.amount, r.category, r.date)) :
            j \in others, r \in BulkItems}
    \cup {AfterDb(update_transaction(db, u, j, Some(r.amount), Some(r.category), Some(r.date))) :
            j \in others, r \in BulkItems}

(* C1: for every transaction input with amount > 0, add transaction answers
   200 with an id, and get-by-id on that id, asked right away or after a
   request that is no write to that id, answers 200 with the amount, category
   and date that were submitted. *)
C1_RoundTrip ==
    \A u \in users, amount \in Amounts, category \in Categories, date \in Dates :
      amount > 0 =>
        LET o == add_transaction(Db, u, amount, category, date) IN
        /\ o.resp.status = 200
        /\ \A db2 \in NoWriteTo(AfterDb(o), u, o.resp.body.id) :
             LET got == get_transaction(db2, u, o.resp.body.id).resp IN
             /\ got.status = 200
             /\ got.body.amount = amount
             /\ got.body.category = category
             /\ got.body.date = date

(* a get-by-id has just returned a row that an add transaction stored *)
C1_Witness ==
    /\ resp.op = "get" /\ resp.status = 200
    /\ resp.body.amount = 2 /\ resp.body.category = "food" /\ resp.body.date = <<1, 0>>

(* C2: of two signup requests with the same email, not registered before
   them, exactly one answers 200 and the other answers 400, however their
   steps interleave.  A request that the existence check refused saw the email
   registered; of two finished requests at least one was not refused. *)
C2_OneCreatedOtherConflict ==
    \A p \in 1..NumProcs, q \in 1..NumProcs :
      ( /\ p # q
        /\ pc[p].st = "done" /\ pc[q].st = "done"
        /\ pc[p].email = pc[q].email
        /\ pc[p].status # 422 /\ pc[q].status # 422
        /\ (pc[p].status # 400 \/ pc[q].status # 400) )
      => {pc[p].status, pc[q].status} = {200, 400}

Accepted(token) == \A g \in get_current_user(token) : g.status = 200
Rejected401(token) == \A g \in get_current_user(token) : g.status = 401

(* C3 as stated: a token issued at time t is accepted at every time up to
   t + TTL and rejected with 401 at every time after t + TTL. *)
C3_RejectedRightAfterTTL ==
    \A i \in issued :
      /\ now <= i.at + JWT_EXPIRES_SECONDS => Accepted(i.token)
      /\ now > i.at + JWT_EXPIRES_SECONDS => Rejected401(i.token)

(* C3 as amended: a token issued at time t is accepted at every time up to
   t + TTL and rejected with 401 at every time after t + TTL + 120 seconds,
   the leeway of the verifier. *)
C3_RejectedAfterLeeway ==
    \A i \in issued :
      /\ now <= i.at + JWT_EXPIRES_SECONDS => Accepted(i.token)
      /\ now > i.at + JWT_EXPIRES_SECONDS + LEEWAY => Rejected401(i.token)

(* /me has just refused a token, and a token that login issued is past its
   TTL and the leeway *)
C3_Witness ==
    /\ resp = Error("me", 401, "Invalid or expired token")
    /\ \E i \in issued : i.at > 0 /\ now > i.at + JWT_EXPIRES_SECONDS + LEEWAY

(* The credentials the claim lets through: a token that login issued, not
   yet expired, whose subject is a user *)
Entitled(token) ==
    /\ token \in IssuedTokens
    /\ now <= token.exp
    /\ \E u \in users : str(u.id) = token.sub

ProtectedStep(T) ==
    \/ AddTransaction(T) \/ AddTransactionsBulk(T) \/ ListTransactions(T)
    \/ GetTransaction(T) \/ ReplaceTransaction(T) \/ UpdateTransaction(T)
    \/ DeleteTransaction(T) \/ Summary(T) \/ Me(T)

(* C4: a protected operation called without a token, or with one that is
   malformed, wrongly signed, expired, or whose subject is no user, answers
   401 and leaves the users and transactions tables as they were. *)
C4_Unauthorized401 ==
    [][ \A token \in TokenInputs :
          (~Entitled(token) /\ ProtectedStep({token}))
          => /\ resp'.status = 401
             /\ UNCHANGED <<users, nextUserId, txns, nextTxnId>> ]_vars

Unchanged404(o) ==
    /\ o.resp.status = 404
    /\ o.txns = txns
    /\ o.nextTxnId = nextTxnId

(* C5: get, replace, patch and delete on an id that is not in the store answer
   404 and leave the store as it was (for a request that passed the gate and
   the validation of its body). *)
C5_MissingIdNotFound ==
    \A u \in users, id \in TxnIds \ DOMAIN txns :
      /\ Unchanged404(delete_transaction(Db, u, id))
      /\ Unchanged404(get_transaction(Db, u, id))
      /\ \A amount \in Amounts, category \in Categories, date \in Dates :
           amount > 0 => Unchanged404(replace_transaction(Db, u, id, amount, category, date))
      /\ \A amount \in Optional(Amounts), category \in Optional(Categories),
            date \in Optional(Dates) :
           (amount = None \/ Val(amount) > 0)
             => Unchanged404(update_transaction(Db, u, id, amount, category, date))

(* a delete of an id that is not there was answered 404 while rows are stored *)
C5_Witness ==
    /\ resp = Error("delete", 404, "Transaction not found")
    /\ DOMAIN txns # {}

(* C6: patch on a stored transaction writes exactly the fields the request
   supplies; the fields it does not supply, the id, and every other
   transaction stay as they were, and the response shows the row as stored. *)
C6_PatchFrame ==
    \A u \in users, id \in DOMAIN txns :
      \A amount \in Optional(Amounts), category \in Optional(Categories),
         date \in Optional(Dates) :
        (amount = None \/ Val(amount) > 0) =>
          LET o == update_transaction(Db, u, id, amount, category, date) IN
          /\ o.resp.status = 200
          /\ o.nextTxnId = nextTxnId
          /\ DOMAIN o.txns = DOMAIN txns
          /\ \A j \in DOMAIN txns \ {id} : o.txns[j] = txns[j]
          /\ o.txns[id].amount = (IF amount = None THEN txns[id].amount ELSE Val(amount))
          /\ o.txns[id].category =
               (IF category = None THEN txns[id].category ELSE Val(category))
          /\ o.txns[id].date = (IF date = None THEN txns[id].date ELSE Val(date))
          /\ o.resp.body = [id |-> id, amount |-> o.txns[id].amount,
                            category |-> o.txns[id].category, date |-> o.txns[id].date]

(* a patch has just succeeded on one of two stored transactions that differ *)
C6_Witness ==
    /\ resp.op = "patch" /\ resp.status = 200
    /\ DOMAIN txns = {1, 2} /\ txns[1] # txns[2]

(* Lexicographic order on strings, by the first position where they differ *)
LexLE(a, b) ==
    \/ Len(a) <= Len(b) /\ \A k \in 1..Len(a) : a[k] = b[k]
    \/ \E k \in 1..Len(a) :
         /\ k <= Len(b)
         /\ \A j \in 1..(k - 1) : a[j] = b[j]
         /\ a[k] < b[k]

ListedIds(o) == {o.resp.body[k].id : k \in 1..Len(o.resp.body)}
ListedAsStored(o) ==
    \A k \in 1..Len(o.resp.body) :
      LET r == o.resp.body[k] IN
      /\ r.id \in DOMAIN txns
      /\ txns[r.id] = [amount |-> r.amount, category |-> r.category, date |-> r.date]

(* C7 as stated: list returns exactly the stored transactions that pass every
   supplied filter (category equal, date >= from_date, date <= to_date,
   lexicographic, inclusive), for every value of each filter. *)
C7_ExactlySuppliedFilters ==
    \A u \in users, category \in Optional(FilterCategories),
       from_date \in Optional(FilterDates), to_date \in Optional(FilterDates) :
      LET o == list_transactions(Db, u, category, from_date, to_date) IN
      /\ o.resp.status = 200
      /\ ListedAsStored(o)
      /\ ListedIds(o) =
           {i \in DOMAIN txns :
              /\ category # None => txns[i].category = Val(category)
              /\ from_date # None => LexLE(Val(from_date), txns[i].date)
              /\ to_date # None => LexLE(txns[i].date, Val(to_date))}

(* C7 as amended: a filter that is not supplied, or is supplied as the empty
   string, excludes nothing; list returns exactly the stored transactions that
   pass every other filter. *)
C7_ExactlyNonEmptyFilters ==
    \A u \in users, category \in Optional(FilterCategories),
       from_date \in Optional(FilterDates), to_date \in Optional(FilterDates) :
      LET o == list_transactions(Db, u, category, from_date, to_date) IN
      /\ o.resp.status = 200
      /\ ListedAsStored(o)
      /\ ListedIds(o) =
           {i \in DOMAIN txns :
              /\ (category # None /\ category # Some("")) => txns[i].category = Val(category)
              /\ (from_date # None /\ from_date # Some(<<>>))
                   => LexLE(Val(from_date), txns[i].date)
              /\ (to_date # None /\ to_date # Some(<<>>))
                   => LexLE(txns[i].date, Val(to_date))}

(* a list has just returned one of two stored transactions, the other one
   having a later date *)
C7_Witness ==
    /\ resp.op = "list" /\ resp.status = 200
    /\ DOMAIN txns = {1, 2}
    /\ Len(resp.body) = 1
    /\ \E i \in DOMAIN txns :
         /\ i # resp.body[1].id
         /\ txns[i].category = resp.body[1].category
         /\ txns[i].date = <<1, 0>> /\ resp.body[1].date = <<1>>

(* C8: the list result is ordered newest id first: ids strictly decrease along
   it, for every combination of filters, in every reachable store. *)
C8_NewestFirst ==
    \A u \in users, category \in Optional(FilterCategories),
       from_date \in Optional(FilterDates), to_date \in Optional(FilterDates) :
      LET b == list_transactions(Db, u, category, from_date, to_date).resp.body IN
      \A k \in 1..(Len(b) - 1) : b[k].id > b[k + 1].id

(* a list has just returned two transactions *)
C8_Witness ==
    /\ resp.op = "list" /\ resp.status = 200
    /\ Len(resp.body) = 2

RECURSIVE SumAmounts(_, _)
SumAmounts(t, ids) ==
    IF ids = {} THEN 0
    ELSE LET i == CHOOSE j \in ids : TRUE IN t[i].amount + SumAmounts(t, ids \ {i})

(* C9: in every reachable store, summary maps exactly the categories of the
   stored transactions, each to the sum of the amounts of the stored
   transactions of that category. *)
C9_SummaryTotals ==
    \A u \in users :
      LET o == summary(Db, u) IN
      /\ o.resp.status = 200
      /\ o.txns = txns
      /\ DOMAIN o.resp.body = {txns[i].category : i \in DOMAIN txns}
      /\ \A c \in DOMAIN o.resp.body :
           o.resp.body[c] = SumAmounts(txns, {i \in DOMAIN txns : txns[i].category = c})

(* summary has just answered with the total of two transactions of one
   category *)
C9_Witness ==
    /\ resp.op = "summary" /\ resp.status = 200
    /\ DOMAIN txns = {1, 2}
    /\ txns[1].category = "food" /\ txns[2].category = "food"
    /\ txns[1].amount = 1 /\ txns[2].amount = 2
    /\ resp.body["food"] = 3

Unchanged422(o) ==
    /\ o.resp.status = 422
    /\ o.txns = txns
    /\ o.nextTxnId = nextTxnId

(* C10: every stored transaction has amount > 0; add, bulk add and replace
   with an amount <= 0, and patch supplying an amount <= 0, answer 422 and
   leave the store as it was. *)
C10_AmountPositive ==
    /\ \A i \in DOMAIN txns : txns[i].amount > 0
    /\ \A u \in users, amount \in Amounts, category \in Categories, date \in Dates :
         amount <= 0 =>
           /\ Unchanged422(add_transaction(Db, u, amount, category, date))
           /\ \A id \in TxnIds :
                Unchanged422(replace_transaction(Db, u, id, amount, category, date))
    /\ \A u \in users, amount \in Amounts, id \in TxnIds :
         amount <= 0 =>
           \A c \in Optional(Categories), d \in Optional(Dates) :
             Unchanged422(update_transaction(Db, u, id, Some(amount), c, d))
    /\ \A u \in users, items \in BulkLists :
         (\E k \in 1..Len(items) : items[k].amount <= 0)
           => Unchanged422(add_transactions_bulk(Db, u, items))

(* a patch with an amount <= 0 has just been refused while rows are stored *)
C10_Witness ==
    /\ resp = Error("patch", 422, "validation error")
    /\ DOMAIN txns # {}

(* C11: in every reachable state every stored transaction has a non-empty
   category string. *)
C11_CategoryNonEmpty == \A i \in DOMAIN txns : txns[i].category # ""

(* C12: transaction ids are unique and never reused.  The id sequence never
   goes back, every stored id is below it, the ids a request creates are
   exactly the sequence values it consumed (so they are larger than every id
   assigned before, deleted or not), and add returns the id it stored. *)
C12_IdsNeverReused ==
    [][ /\ nextTxnId' >= nextTxnId
        /\ DOMAIN txns' \ DOMAIN txns = nextTxnId..(nextTxnId' - 1)
        /\ \A i \in DOMAIN txns \cup DOMAIN txns' : i < nextTxnId'
        /\ (resp'.op = "add" /\ resp'.status = 200)
             => (resp'.body.id = nextTxnId /\ nextTxnId' = nextTxnId + 1) ]_vars

(* add has just returned id 2 after the transaction with id 1 was deleted *)
C12_Witness ==
    /\ resp.op = "add" /\ resp.status = 200
    /\ resp.body.id = 2
    /\ DOMAIN txns = {2}

(* C13: a token that a successful login with a user's email returned,
   presented to /me while still valid (up to the expiry login announced),
   passes the gate and /me answers 200 with exactly that user's id and email,
   the ones signup stored. *)
C13_LoginThenMe ==
    \A i \in issued :
      now <= i.at + JWT_EXPIRES_SECONDS =>
        /\ \E u \in users : u.email = i.email
        /\ \A g \in get_current_user(i.token) :
             /\ g.status = 200
             /\ \A u \in users :
                  u.email = i.email
                    => me(Db, Val(g.user)).resp = Ok("me", [id |-> u.id, email |-> u.email])

(* /me has just answered with the second of two users, whose token is valid *)
C13_Witness ==
    /\ Cardinality(users) = 2
    /\ resp.op = "me" /\ resp.status = 200
    /\ \E i \in issued :
         /\ i.email = resp.body.email
         /\ i.token.sub = str(resp.body.id)
         /\ resp.body.id > 1
         /\ now > i.at /\ now <= i.at + JWT_EXPIRES_SECONDS

(* The user the gate resolves for each token login has issued *)
Callers == {Val(g.user) : g \in UNION {get_current_user(i.token) : i \in issued}}

(* C14: transactions are not scoped to the user.  Every token login issued to
   either user passes the gate, and for any two users A and B, in every
   reachable store, each transaction operation gives the same response and
   the same resulting store for A as for B; a transaction A adds can be read,
   replaced, patched and deleted by B. *)
C14_SameForEveryUser ==
    /\ \A i \in issued : \A g \in get_current_user(i.token) :
         g.status = 200 /\ Val(g.user).email = i.email
    /\ \A A \in Callers, B \in Callers :
         /\ \A r \in BulkItems :
              /\ add_transaction(Db, A, r.amount, r.category, r.date)
                   = add_transaction(Db, B, r.amount, r.category, r.date)
              /\ \A id \in TxnIds :
                   /\ replace_transaction(Db, A, id, r.amount, r.category, r.date)
                        = replace_transaction(Db, B, id, r.amount, r.category, r.date)
                   /\ update_transaction(Db, A, id, Some(r.amount), Some(r.category), None)
                        = update_transaction(Db, B, id, Some(r.amount), Some(r.category), None)
                   /\ update_transaction(Db, A, id, None, None, Some(r.date))
                        = update_transaction(Db, B, id, None, None, Some(r.date))
         /\ \A items \in BulkLists :
              add_transactions_bulk(Db, A, items) = add_transactions_bulk(Db, B, items)
         /\ \A category \in Optional(FilterCategories), from_date \in Optional(FilterDates),
               to_date \in Optional(FilterDates) :
              list_transactions(Db, A, category, from_date, to_date)
                = list_transactions(Db, B, category, from_date, to_date)
         /\ \A id \in TxnIds :
              /\ get_transaction(Db, A, id) = get_transaction(Db, B, id)
              /\ delete_transaction(Db, A, id) = delete_transaction(Db, B, id)
         /\ summary(Db, A) = summary(Db, B)
         /\ \A r \in ValidRows :
              LET o == add_transaction(Db, A, r.amount, r.category, r.date)
                  id == o.resp.body.id
              IN /\ get_transaction(AfterDb(o), B, id).resp.status = 200
                 /\ \E k \in 1..Len(list_transactions(AfterDb(o), B, None, None, None).resp.body) :
                      list_transactions(AfterDb(o), B, None, None, None).resp.body[k].id = id
                 /\ replace_transaction(AfterDb(o), B, id, 2, "food", <<1>>).resp.status = 200
                 /\ update_transaction(AfterDb(o), B, id, Some(2), None, None).resp.status = 200
                 /\ delete_transaction(AfterDb(o), B, id).resp.status = 200

(* with two users logged in, a stored transaction has just been deleted *)
C14_Witness ==
    /\ Cardinality(Callers) = 2
    /\ resp.op = "delete" /\ resp.status = 200
    /\ nextTxnId = 2 /\ DOMAIN txns = {}

(* C15: bulk add of n items that all have amount > 0 answers added = n, stores
   each item's amount, category and date under a new id of its own (n new
   transactions, in list order) and leaves the transactions that were there
   as they were; if any item has amount <= 0 it answers 422 and stores
   nothing. *)
C15_BulkAddsAllOrRejects ==
    \A u \in users, items \in BulkLists :
      LET o == add_transactions_bulk(Db, u, items)
          n == Len(items)
          new == DOMAIN o.txns \ DOMAIN txns
      IN IF \A k \in 1..n : items[k].amount > 0
         THEN /\ o.resp = Ok("bulk", [ok |-> TRUE, added |-> n])
              /\ Cardinality(new) = n
              /\ \A i \in DOMAIN txns : i \in DOMAIN o.txns /\ o.txns[i] = txns[i]
              /\ \A k \in 1..n :
                   /\ (nextTxnId + k - 1) \in new
                   /\ o.txns[nextTxnId + k - 1] =
                        [amount |-> items[k].amount, category |-> items[k].category,
                         date |-> items[k].date]
         ELSE /\ o.resp.status = 422
              /\ o.txns = txns
              /\ o.nextTxnId = nextTxnId

(* a bulk add of two different items has just stored both *)
C15_Witness ==
    /\ resp = Ok("bulk", [ok |-> TRUE, added |-> 2])
    /\ DOMAIN txns = {1, 2}
    /\ txns[1] # txns[2]

(* C16: the verifier allows 120 seconds of clock skew on expiry: a token that
   login signed is accepted when presented less than 120 seconds after its exp
   timestamp, and rejected with 401 when presented more than 120 seconds
   after it. *)
C16_LeewayOnExpiry ==
    \A i \in issued :
      /\ now < i.token.exp + LEEWAY => Accepted(i.token)
      /\ now > i.token.exp + LEEWAY => Rejected401(i.token)

(* /me has answered 200, and every token login has issued is past its exp
   timestamp but one of them by less than the leeway *)
C16_Witness ==
    /\ resp.op = "me" /\ resp.status = 200
    /\ issued # {}
    /\ \A i \in issued : now > i.token.exp
    /\ \E i \in issued : now < i.token.exp + LEEWAY /\ i.token.sub = str(resp.body.id)

(* C17: no two stored users have the same email, in every reachable state,
   also when two signups both pass the existence check before either
   commits. *)
C17_EmailUnique ==
    \A u \in users, v \in users : u.email = v.email => u = v

(* two signups with the same email both passed the existence check and both
   have committed: one row was stored and the other insert was refused *)
C17_Witness ==
    \E p \in 1..NumProcs, q \in 1..NumProcs :
      /\ pc[p].st = "done" /\ pc[q].st = "done"
      /\ pc[p].email = pc[q].email
      /\ pc[p].status = 200 /\ pc[q].status = 500
      /\ Cardinality({u \in users : u.email = pc[p].email}) = 1

(* C18: login answers 200 with a token if and only if a user with the given
   email exists and the given password verifies against the stored hash; an
   unknown email and a wrong password get the same 401 "Invalid credentials";
   in either case the users and transactions tables stay as they were.
   (A step is a login request exactly when login_request holds of it; its
   response then carries op "login".) *)
C18_LoginIffCredentials ==
    [][ \A email \in Emails, password \in Passwords :
          (resp'.op = "login" /\ login_request(email, password)) =>
            /\ IF \E u \in users : /\ u.email = email
                                   /\ verify_password(password, u.password_hash)
               THEN /\ resp'.op = "login" /\ resp'.status = 200
                    /\ resp'.body.token_type = "bearer"
                    /\ resp'.body.access_token \in {i.token : i \in issued'}
               ELSE /\ resp' = Error("login", 401, "Invalid credentials")
                    /\ issued' = issued
            /\ UNCHANGED <<users, nextUserId, txns, nextTxnId>> ]_vars

(* login has just refused a wrong password: every email is registered, and
   the last response is the 401 of a login *)
C18_Witness ==
    /\ resp = Error("login", 401, "Invalid credentials")
    /\ {u.email : u \in users} = Emails

(* C19: users are created only by signup and never changed or deleted: every
   step keeps every user record (same id, email and password hash), a step
   that adds one is the commit of a signup and adds one record under an id no
   record has, and so no token that login has issued is ever answered
   "User not found". *)
C19_UsersPersist ==
    /\ [](\A i \in issued : \A g \in get_current_user(i.token) :
            g.detail # "User not found")
    /\ [][ /\ users \subseteq users'
           /\ users' # users =>
                /\ \E p \in 1..NumProcs : signup_commit(p)
                /\ Cardinality(users' \ users) = 1
                /\ \A n \in users' \ users : \A u \in users : n.id # u.id ]_vars

(* after a second user signed up, /me has answered for the first one with a
   token from an earlier time *)
C19_Witness ==
    /\ Cardinality(users) = 2
    /\ resp.op = "me" /\ resp.status = 200 /\ resp.body.id = 1
    /\ now > 0
    /\ \E i \in issued : i.token.sub = "1" /\ i.at < now

(* C20: replace on a stored id (with an amount > 0) writes the submitted
   amount, category and date to that row, keeps its id, answers 200 with the
   row as written, and leaves every other transaction, the set of ids and the
   number of stored transactions as they were. *)
C20_ReplaceOverwrites ==
    \A u \in users, id \in DOMAIN txns :
      \A amount \in Amounts, category \in Categories, date \in Dates :
        amount > 0 =>
          LET o == replace_transaction(Db, u, id, amount, category, date) IN
          /\ o.resp = Ok("replace", [id |-> id, amount |-> amount,
                                     category |-> category, date |-> date])
          /\ o.txns[id] = [amount |-> amount, category |-> category, date |-> date]
          /\ DOMAIN o.txns = DOMAIN txns
          /\ Cardinality(DOMAIN o.txns) = Cardinality(DOMAIN txns)
          /\ \A j \in DOMAIN txns \ {id} : o.txns[j] = txns[j]
          /\ o.nextTxnId = nextTxnId

(* a replace has just rewritten one of two stored transactions *)
C20_Witness ==
    /\ resp.op = "replace" /\ resp.status = 200
    /\ DOMAIN txns = {1, 2}
    /\ resp.body.id = 1
    /\ txns[1] = [amount |-> 2, category |-> "food", date |-> <<1, 0>>]
    /\ txns[2] # txns[1]

====
